---------------------------- MODULE Spec2Model ----------------------------
(***************************************************************************)
(* A model of pngme's binary format layer and command layer:               *)
(*   - ChunkType  (src/src/chunk_type.rs): the validated 4-byte type code  *)
(*   - Chunk      (src/src/chunk.rs): the length/type/data/CRC record      *)
(*   - Png        (the container; its source file is not in the tree, so   *)
(*                 it is modelled from the specification's section 4.3)    *)
(*   - commands   (src/src/commands.rs): encode, decode, remove, print     *)
(*                                                                         *)
(* Bytes are naturals 0..255.  A u32 is the set of its set bit positions   *)
(* (a subset of 0..31): TLC's integers are 32-bit signed, and a length     *)
(* field or a CRC uses all 32 bits.                                        *)
(***************************************************************************)
EXTENDS Integers, Sequences, FiniteSets, TLC

VARIABLES
    tin,      \* SpecType: the input, a string or a 4-byte array
    tres,     \* SpecType: the result of the conversion applied to tin
    pc,       \* SpecChunk: position in the build / tamper / decode sequence
    t,        \* SpecChunk: the 4-byte type code of the input
    d,        \* SpecChunk: the payload of the input
    chunk,    \* SpecChunk: the Chunk built by Chunk::new, or NoChunk
    orig,     \* SpecChunk: the wire bytes before tampering
    buf,      \* SpecChunk: the wire bytes handed to Chunk::try_from
    tamper,   \* SpecChunk: what was done to orig to obtain buf
    res,      \* SpecChunk: the result of Chunk::try_from(buf)
    fs,       \* SpecPng: the file system, path -> bytes or NoFile
    last      \* SpecPng: the last command run and what it did

typeVars  == <<tin, tres>>
chunkVars == <<pc, t, d, chunk, orig, buf, tamper, res>>
pngVars   == <<fs, last>>
vars      == <<tin, tres, pc, t, d, chunk, orig, buf, tamper, res, fs, last>>

---------------------------------------------------------------------------
(* Bounds of the model.                                                    *)

\* Longest string handed to ChunkType::from_str.
MaxStrLen == 5
\* Longest enumerated payload of a chunk (the fixed payloads come on top).
MaxDataLen == 2
\* Most chunks a file may hold for the encode command to be run on it.
MaxChunks == 2

---------------------------------------------------------------------------
(* Bytes and 32-bit words.                                                 *)

Pow2(n) == 2 ^ n

\* All sequences over S of length 0..n.
SeqsUpTo(S, n) == UNION {[1..k -> S] : k \in 0..n}

\* Bit i of the natural x.
BitOf(x, i) == (x \div Pow2(i)) % 2

\* The bits of each byte, as a set of positions 0..7.  (Merged with the
\* empty function so that the table is computed once.)
BYTE_BITS == [b \in 0..255 |-> {i \in 0..7 : BitOf(b, i) = 1}] @@ <<>>

ByteBits(b) == BYTE_BITS[b]

\* The byte held in bits base..base+7 of the word w.
ByteAt(w, base) ==
    LET B(i) == IF (base + i) \in w THEN Pow2(i) ELSE 0
    IN  B(0) + B(1) + B(2) + B(3) + B(4) + B(5) + B(6) + B(7)

\* u32::to_be_bytes: most significant byte first.
to_be_bytes(w) == <<ByteAt(w, 24), ByteAt(w, 16), ByteAt(w, 8), ByteAt(w, 0)>>

\* u32::from_be_bytes.
from_be_bytes(b) ==
    {i + 24 : i \in ByteBits(b[1])} \cup {i + 16 : i \in ByteBits(b[2])}
        \cup {i + 8 : i \in ByteBits(b[3])} \cup ByteBits(b[4])

\* `n as u32` for a usize n below 2^16 (every length the model reaches).
as_u32(n) == ByteBits(n % 256) \cup {i + 8 : i \in ByteBits(n \div 256)}

\* The u32 with high half hi and low half lo (hi * 65536 + lo).
U32(hi, lo) == {i \in 0..15 : BitOf(lo, i) = 1} \cup {i + 16 : i \in {j \in 0..15 : BitOf(hi, j) = 1}}

\* The value of a word whose bit 31 is clear.
RECURSIVE WordNat(_)
WordNat(w) ==
    IF w = {} THEN 0
    ELSE LET i == CHOOSE j \in w : TRUE IN Pow2(i) + WordNat(w \ {i})

\* `w as usize <= n`, for n below 2^31.
UsizeLeq(w, n) == 31 \notin w /\ WordNat(w) <= n

\* Bitwise exclusive or of two words.
Xor(a, b) == (a \ b) \cup (b \ a)

\* Logical shift right by one.
Shr1(w) == {i - 1 : i \in w \ {0}}

---------------------------------------------------------------------------
(* ChunkType (src/src/chunk_type.rs).                                       *)

is_ascii_uppercase(b) == b >= 65 /\ b <= 90
is_ascii_lowercase(b) == b >= 97 /\ b <= 122
is_ascii_alphabetic(b) == is_ascii_uppercase(b) \/ is_ascii_lowercase(b)

\* struct ChunkType { type_code: [u8; 4] }
ChunkType(code) == [type_code |-> code]

bytes(ct) == ct.type_code

is_critical(ct) == is_ascii_uppercase(ct.type_code[1])
is_public(ct) == is_ascii_uppercase(ct.type_code[2])
is_reserved_bit_valid(ct) == is_ascii_uppercase(ct.type_code[3])
is_safe_to_copy(ct) == is_ascii_lowercase(ct.type_code[4])

all_alphabetic(code) == \A i \in 1..4 : is_ascii_alphabetic(code[i])

is_valid(ct) == all_alphabetic(ct.type_code) /\ is_reserved_bit_valid(ct)

\* The value a failed conversion carries in place of a ChunkType.
NoType == ChunkType(<<0, 0, 0, 0>>)

TypeOk(ct) == [ok |-> TRUE, err |-> "none", n |-> 0, val |-> ct]
TypeErr(e, k) == [ok |-> FALSE, err |-> e, n |-> k, val |-> NoType]

\* Faulty variant of try_from: the reserved-bit test is left out.
ChunkType_try_from_no_reserved_bit(value) ==
    LET ct == ChunkType(value)
    IN  IF ~all_alphabetic(ct.type_code) THEN TypeErr("Validation.NonAscii", 0)
        ELSE TypeOk(ct)

\* impl TryFrom<[u8; 4]> for ChunkType
ChunkType_try_from(value) ==
    LET ct == ChunkType(value)
    IN  IF ~all_alphabetic(ct.type_code) THEN TypeErr("Validation.NonAscii", 0)
        ELSE IF ~is_reserved_bit_valid(ct) THEN TypeErr("Validation.ReservedBit", 0)
        ELSE TypeOk(ct)

\* ChunkType::parse: the string's bytes as a 4-byte array.
ChunkType_parse(s) ==
    LET length == Len(s)
    IN  IF length > 4 THEN TypeErr("Parse.InvalidLength", length)
        ELSE IF length # 4 THEN TypeErr("Parse.FromSlice", 0)
        ELSE [ok |-> TRUE, err |-> "none", n |-> 0, val |-> ChunkType(s)]

\* impl FromStr for ChunkType
from_str(s) ==
    LET type_code == ChunkType_parse(s)
    IN  IF ~type_code.ok THEN type_code
        ELSE ChunkType_try_from(type_code.val.type_code)

---------------------------------------------------------------------------
(* UTF-8 validity of a byte sequence (str::from_utf8, and what a &str is). *)

IsCont(b) == b >= 128 /\ b <= 191

RECURSIVE Utf8From(_, _)
Utf8From(s, i) ==
    IF i > Len(s) THEN TRUE
    ELSE LET b == s[i]
             Has(k) == i + k <= Len(s)
             Cont(k) == IsCont(s[i + k])
         IN  IF b <= 127 THEN Utf8From(s, i + 1)
             ELSE IF b >= 194 /\ b <= 223
                  THEN Has(1) /\ Cont(1) /\ Utf8From(s, i + 2)
             ELSE IF b = 224
                  THEN Has(2) /\ s[i + 1] >= 160 /\ s[i + 1] <= 191 /\ Cont(2)
                       /\ Utf8From(s, i + 3)
             ELSE IF b = 237
                  THEN Has(2) /\ s[i + 1] >= 128 /\ s[i + 1] <= 159 /\ Cont(2)
                       /\ Utf8From(s, i + 3)
             ELSE IF b >= 225 /\ b <= 239
                  THEN Has(2) /\ Cont(1) /\ Cont(2) /\ Utf8From(s, i + 3)
             ELSE IF b = 240
                  THEN Has(3) /\ s[i + 1] >= 144 /\ s[i + 1] <= 191 /\ Cont(2)
                       /\ Cont(3) /\ Utf8From(s, i + 4)
             ELSE IF b >= 241 /\ b <= 243
                  THEN Has(3) /\ Cont(1) /\ Cont(2) /\ Cont(3) /\ Utf8From(s, i + 4)
             ELSE IF b = 244
                  THEN Has(3) /\ s[i + 1] >= 128 /\ s[i + 1] <= 143 /\ Cont(2)
                       /\ Cont(3) /\ Utf8From(s, i + 4)
             ELSE FALSE

Utf8Valid(s) == Utf8From(s, 1)

---------------------------------------------------------------------------
(* SpecType: the conversions of ChunkType applied to bounded inputs.       *)

\* Bytes of the strings handed to from_str: R, s, S, 1, and the two bytes
\* of U+00E9 (a two-byte character).
StrBytes == {82, 115, 83, 49, 195, 169}

\* Bytes of the arrays handed to try_from: the letters at the ends of both
\* ranges, their outer neighbours, and two bytes above 127.
CodeBytes == {64, 65, 90, 91, 96, 97, 122, 123, 195, 169}

\* A &str is valid UTF-8 by construction.
Strings == {s \in SeqsUpTo(StrBytes, MaxStrLen) : Utf8Valid(s)}
Codes == [1..4 -> CodeBytes]

NoInput == [kind |-> "none", b |-> <<>>]
NoTypeRes == [op |-> "none", r |-> TypeErr("none", 0), valid |-> FALSE]

\* Values of the variables a specification does not use.
IdleType == tin = NoInput /\ tres = NoTypeRes

TypeInit ==
    /\ \/ \E s \in Strings : tin = [kind |-> "str", b |-> s]
       \/ \E c \in Codes : tin = [kind |-> "code", b |-> c]
    /\ tres = NoTypeRes

\* ChunkType::from_str(s)
FromStr ==
    /\ tin.kind = "str" /\ tres.op = "none"
    /\ tres' = [op |-> "from_str", r |-> from_str(tin.b), valid |-> FALSE]
    /\ UNCHANGED <<tin, chunkVars, pngVars>>

\* ChunkType::try_from(code), and is_valid() of the unvalidated type.
TryFrom ==
    /\ tin.kind = "code" /\ tres.op = "none"
    /\ tres' = [op |-> "try_from", r |-> ChunkType_try_from(tin.b),
                valid |-> is_valid(ChunkType(tin.b))]
    /\ UNCHANGED <<tin, chunkVars, pngVars>>

---------------------------------------------------------------------------
(* Chunk (src/src/chunk.rs).                                                *)

\* Chunk::OVERHEAD_BYTES
OVERHEAD_BYTES == 12

\* crc::CRC_32_ISO_HDLC: polynomial 0x04C11DB7 reflected (0xEDB88320),
\* init 0xFFFFFFFF, reflected in and out, final xor 0xFFFFFFFF.
CRC_POLY == U32(60856, 33568)
CRC_INIT == 0..31
CRC_XOROUT == 0..31

\* One shift of the reflected register.
crc_round(reg) == IF 0 \in reg THEN Xor(Shr1(reg), CRC_POLY) ELSE Shr1(reg)

\* The crate's lookup table: entry b is the register b after eight shifts.
\* (Merged with the empty function so that the table is computed once.)
CRC_TABLE ==
    [b \in 0..255 |->
        crc_round(crc_round(crc_round(crc_round(
        crc_round(crc_round(crc_round(crc_round(ByteBits(b)))))))))] @@ <<>>

\* Logical shift right by eight.
Shr8(w) == {i - 8 : i \in {j \in w : j >= 8}}

\* Digest::update with one byte: table[(reg ^ b) & 0xFF] ^ (reg >> 8).
crc_byte(reg, b) == Xor(CRC_TABLE[ByteAt(Xor(reg, ByteBits(b)), 0)], Shr8(reg))

\* Digest::update with the bytes s[i..].  (The register is bound by a
\* quantifier so that it is a value before the next byte is taken.)
RECURSIVE crc_update(_, _, _)
crc_update(reg, s, i) ==
    IF i > Len(s) THEN reg
    ELSE CHOOSE r \in {crc_update(x, s, i + 1) : x \in {crc_byte(reg, s[i])}} : TRUE

\* struct Chunk { chunk_type: ChunkType, data: Vec<u8> }
Chunk_new(chunk_type, chunk_data) == [chunk_type |-> chunk_type, data |-> chunk_data]

NoChunk == Chunk_new(NoType, <<>>)

\* Chunk::length: data.len() as u32.
length(c) == as_u32(Len(c.data))

chunk_type(c) == c.chunk_type

data(c) == c.data

\* Faulty variant of crc: the digest is not fed the type bytes.
crc_data_only(c) == Xor(crc_update(CRC_INIT, c.data, 1), CRC_XOROUT)

\* Chunk::crc: the digest of the type bytes, then of the data.
crc(c) ==
    Xor(crc_update(crc_update(CRC_INIT, bytes(c.chunk_type), 1), c.data, 1), CRC_XOROUT)

\* Chunk::data_as_str: the data as text, or the Utf8Error.
data_as_str(c) == [ok |-> Utf8Valid(c.data), text |-> IF Utf8Valid(c.data) THEN c.data ELSE <<>>]

\* Faulty variant of as_bytes: the length is written least significant
\* byte first (to_le_bytes).
as_bytes_le_length(c) ==
    LET be == to_be_bytes(length(c))
    IN  <<be[4], be[3], be[2], be[1]>> \o bytes(c.chunk_type) \o c.data \o to_be_bytes(crc(c))

\* Chunk::as_bytes: length, type, data, crc.
as_bytes(c) == to_be_bytes(length(c)) \o bytes(c.chunk_type) \o c.data \o to_be_bytes(crc(c))

ParseErr == [ok |-> FALSE, length |-> {}, type_bytes |-> <<0, 0, 0, 0>>,
             data |-> <<>>, crc |-> {}, pos |-> 0]

\* Faulty variant of parse: the data is read with a plain read, which
\* returns the bytes that are there when fewer than `length` are left (the
\* last four bytes of the buffer are then taken as the CRC).
Chunk_parse_short_read(b) ==
    IF Len(b) < OVERHEAD_BYTES THEN ParseErr
    ELSE LET len == from_be_bytes(SubSeq(b, 1, 4))
             n == IF UsizeLeq(len, Len(b) - OVERHEAD_BYTES) THEN WordNat(len)
                  ELSE Len(b) - OVERHEAD_BYTES
         IN  [ok |-> TRUE,
              length |-> len,
              type_bytes |-> SubSeq(b, 5, 8),
              data |-> SubSeq(b, 9, 8 + n),
              crc |-> from_be_bytes(SubSeq(b, 9 + n, 12 + n)),
              pos |-> 12 + n]

\* Chunk::parse: four read_exact calls on a reader over buf.  A read_exact
\* that asks for more bytes than are left fails (UnexpectedEof) and parse
\* returns ParseError::Io.  pos is the reader's position after the reads.
\* (The data buffer of `length` bytes is allocated before it is filled; the
\* allocation is taken to succeed.)
Chunk_parse(b) ==
    IF Len(b) < 4 THEN ParseErr
    ELSE LET len == from_be_bytes(SubSeq(b, 1, 4))
         IN  IF Len(b) < 8 THEN ParseErr
             ELSE IF ~UsizeLeq(len, Len(b) - 8) THEN ParseErr
             ELSE LET n == WordNat(len)
                  IN  IF Len(b) < 8 + n + 4 THEN ParseErr
                      ELSE [ok |-> TRUE,
                            length |-> len,
                            type_bytes |-> SubSeq(b, 5, 8),
                            data |-> SubSeq(b, 9, 8 + n),
                            crc |-> from_be_bytes(SubSeq(b, 9 + n, 12 + n)),
                            pos |-> 12 + n]

ChunkOk(c, k) == [ok |-> TRUE, err |-> "none", chunk |-> c, consumed |-> k]
ChunkErr(e) == [ok |-> FALSE, err |-> e, chunk |-> NoChunk, consumed |-> 0]

\* Faulty variant of validate: the CRC field is not compared.
validate_no_crc_check(len, type_code, dat, crcField) ==
    LET ct == ChunkType_try_from(type_code)
    IN  IF ~ct.ok THEN ChunkErr(ct.err)
        ELSE LET c == [chunk_type |-> ct.val, data |-> dat]
             IN  IF length(c) # len THEN ChunkErr("Validation.LengthMismatch")
                 ELSE ChunkOk(c, 0)

\* Faulty variant of validate: the length and the CRC are compared before
\* the type is validated.
validate_type_last(len, type_code, dat, crcField) ==
    LET c == [chunk_type |-> ChunkType(type_code), data |-> dat]
        ct == ChunkType_try_from(type_code)
    IN  IF length(c) # len THEN ChunkErr("Validation.LengthMismatch")
        ELSE IF crc(c) # crcField THEN ChunkErr("Validation.CRC32Mismatch")
        ELSE IF ~ct.ok THEN ChunkErr(ct.err)
        ELSE ChunkOk(c, 0)

\* Chunk::validate
validate(len, type_code, dat, crcField) ==
    LET ct == ChunkType_try_from(type_code)
    IN  IF ~ct.ok THEN ChunkErr(ct.err)
        ELSE LET c == [chunk_type |-> ct.val, data |-> dat]
                 expected_length == length(c)
                 expected_crc == crc(c)
             IN  IF expected_length # len THEN ChunkErr("Validation.LengthMismatch")
                 ELSE IF expected_crc # crcField THEN ChunkErr("Validation.CRC32Mismatch")
                 ELSE ChunkOk(c, 0)

\* Faulty variant of try_from: the parsed fields are not validated.
Chunk_try_from_unvalidated(b) ==
    LET p == Chunk_parse(b)
    IN  IF ~p.ok THEN ChunkErr("Parse.Io")
        ELSE ChunkOk([chunk_type |-> ChunkType(p.type_bytes), data |-> p.data], p.pos)

\* impl TryFrom<BufReader<R>> for Chunk, impl TryFrom<&[u8]> for Chunk.
\* consumed is the reader's position when the chunk is returned.
Chunk_try_from(b) ==
    LET p == Chunk_parse(b)
    IN  IF ~p.ok THEN ChunkErr("Parse.Io")
        ELSE CHOOSE r \in {IF v.ok THEN ChunkOk(v.chunk, p.pos) ELSE v :
                           v \in {validate(p.length, p.type_bytes, p.data, p.crc)}} : TRUE

---------------------------------------------------------------------------
(* SpecChunk: a chunk is built and encoded, or a raw record is given; the  *)
(* bytes are tampered with or not; then they are decoded.                  *)

\* "RuSt", "ruSt" (valid), "Rust" (reserved bit), "Ru1t" (non-letter).
RuSt == <<82, 117, 83, 116>>
ChunkCodes == {RuSt, <<114, 117, 83, 116>>, <<82, 117, 115, 116>>, <<82, 117, 49, 116>>}

\* "This is where your secret message will be!"
Message ==
    <<84, 104, 105, 115, 32, 105, 115, 32, 119, 104, 101, 114, 101, 32,
      121, 111, 117, 114, 32, 115, 101, 99, 114, 101, 116, 32, 109, 101,
      115, 115, 97, 103, 101, 32, 119, 105, 108, 108, 32, 98, 101, 33>>

DataBytes == {0, 255}

\* A payload that is the CRC of the empty chunk of type RuSt.
SelfCrc == to_be_bytes(crc(Chunk_new(ChunkType(RuSt), <<>>)))

Payloads == SeqsUpTo(DataBytes, MaxDataLen) \cup {Message, SelfCrc}

\* Length fields of a raw record with payload p: right, one more, one less,
\* and with the top bit set.
ForgedLengths(p) ==
    {as_u32(Len(p)), as_u32(Len(p) + 1), as_u32(Len(p)) \cup {31}}
        \cup (IF Len(p) > 0 THEN {as_u32(Len(p) - 1)} ELSE {})

Extensions == {<<0>>, <<255, 255>>}

NoTamper == [kind |-> "none", at |-> 0]
NoRes == [ok |-> FALSE, err |-> "pending", chunk |-> NoChunk, consumed |-> 0]

IdleChunk ==
    /\ pc = "idle" /\ t = <<>> /\ d = <<>> /\ chunk = NoChunk
    /\ orig = <<>> /\ buf = <<>> /\ tamper = NoTamper /\ res = NoRes

ChunkInit ==
    /\ pc = "input"
    /\ t \in ChunkCodes
    /\ d \in Payloads
    /\ chunk = NoChunk /\ orig = <<>> /\ buf = <<>>
    /\ tamper = NoTamper /\ res = NoRes

\* Chunk::new(ChunkType::try_from(t)?, d)
New ==
    /\ pc = "input"
    /\ ChunkType_try_from(t).ok
    /\ chunk' = Chunk_new(ChunkType_try_from(t).val, d)
    /\ pc' = "new"
    /\ UNCHANGED <<t, d, orig, buf, tamper, res, typeVars, pngVars>>

\* chunk.as_bytes()
AsBytes ==
    /\ pc = "new"
    /\ buf' = as_bytes(chunk)
    /\ orig' = buf'
    /\ pc' = "wire"
    /\ UNCHANGED <<t, d, chunk, tamper, res, typeVars, pngVars>>

\* Untrusted input: a raw record whose fields need not agree.
Forge ==
    /\ pc = "input"
    /\ \E lf \in ForgedLengths(d), good \in BOOLEAN :
          LET c == crc(Chunk_new(ChunkType(t), d))
          IN  /\ buf' = to_be_bytes(lf) \o t \o d
                            \o to_be_bytes(IF good THEN c ELSE Xor(c, {0}))
              /\ tamper' = [kind |-> "forge", at |-> 0]
    /\ orig' = buf'
    /\ pc' = "wire"
    /\ UNCHANGED <<t, d, chunk, res, typeVars, pngVars>>

\* buf with bit i (0 = the top bit of the first byte) flipped.
FlipAt(b, i) ==
    LET k == (i \div 8) + 1
        bit == 7 - (i % 8)
        v == IF BitOf(b[k], bit) = 1 THEN b[k] - Pow2(bit) ELSE b[k] + Pow2(bit)
    IN  [b EXCEPT ![k] = v]

\* One bit of an encoded chunk is flipped.
FlipBit ==
    /\ pc = "wire" /\ chunk # NoChunk
    /\ \E i \in 0..(8 * Len(buf) - 1) :
          /\ buf' = FlipAt(buf, i)
          /\ tamper' = [kind |-> "flip", at |-> i]
    /\ pc' = "tampered"
    /\ UNCHANGED <<t, d, chunk, orig, res, typeVars, pngVars>>

\* The input ends early.
Truncate ==
    /\ pc = "wire"
    /\ \E k \in 0..(Len(buf) - 1) :
          /\ buf' = SubSeq(buf, 1, k)
          /\ tamper' = [kind |-> "truncate", at |-> k]
    /\ pc' = "tampered"
    /\ UNCHANGED <<t, d, chunk, orig, res, typeVars, pngVars>>

\* Bytes follow the record.
Extend ==
    /\ pc = "wire"
    /\ \E e \in Extensions :
          /\ buf' = buf \o e
          /\ tamper' = [kind |-> "extend", at |-> Len(e)]
    /\ pc' = "tampered"
    /\ UNCHANGED <<t, d, chunk, orig, res, typeVars, pngVars>>

\* Chunk::try_from(buf)
Decode ==
    /\ pc \in {"wire", "tampered"}
    /\ res' = Chunk_try_from(buf)
    /\ pc' = "done"
    /\ UNCHANGED <<t, d, chunk, orig, buf, tamper, typeVars, pngVars>>

---------------------------------------------------------------------------
(* Png: the container.  Modelled from the specification (section 4.3): the *)
(* source file of the container is not part of the tree.                   *)

\* The fixed 8-byte PNG signature.
STANDARD_HEADER == <<137, 80, 78, 71, 13, 10, 26, 10>>

Png_from_chunks(cs) == [chunks |-> cs]

PngOk(cs) == [ok |-> TRUE, err |-> "none", png |-> Png_from_chunks(cs)]
PngErr(e) == [ok |-> FALSE, err |-> e, png |-> Png_from_chunks(<<>>)]

\* Chunks are decoded from the remaining bytes until none is left; the
\* first failure fails the whole decode.  acc holds the chunks decoded so far.
RECURSIVE decode_chunks(_, _)
decode_chunks(rest, acc) ==
    IF rest = <<>> THEN PngOk(acc)
    ELSE CHOOSE out \in
            {IF ~r.ok THEN PngErr(r.err)
             ELSE decode_chunks(SubSeq(rest, r.consumed + 1, Len(rest)), Append(acc, r.chunk)) :
             r \in {Chunk_try_from(rest)}} : TRUE

\* Png::try_from(bytes)
Png_try_from(b) ==
    IF Len(b) < 8 \/ SubSeq(b, 1, 8) # STANDARD_HEADER THEN PngErr("BadSignature")
    ELSE decode_chunks(SubSeq(b, 9, Len(b)), <<>>)

\* Png::append_chunk
append_chunk(png, c) == Png_from_chunks(Append(png.chunks, c))

\* Png::remove_first_chunk: scan in list order, remove the first chunk of
\* the type, keep the others in order.
RECURSIVE remove_scan(_, _, _)
remove_scan(cs, ct, i) ==
    IF i > Len(cs) THEN [found |-> FALSE, chunk |-> NoChunk, png |-> Png_from_chunks(cs)]
    ELSE IF cs[i].chunk_type = ct
         THEN [found |-> TRUE, chunk |-> cs[i],
               png |-> Png_from_chunks(SubSeq(cs, 1, i - 1) \o SubSeq(cs, i + 1, Len(cs)))]
         ELSE remove_scan(cs, ct, i + 1)

remove_first_chunk(png, ct) == remove_scan(png.chunks, ct, 1)

\* Png::chunks
chunks(png) == png.chunks

\* Png::as_bytes: the signature, then each chunk's bytes in list order.
RECURSIVE concat_chunks(_)
concat_chunks(cs) ==
    IF cs = <<>> THEN <<>> ELSE as_bytes(Head(cs)) \o concat_chunks(Tail(cs))

Png_as_bytes(png) == STANDARD_HEADER \o concat_chunks(png.chunks)

---------------------------------------------------------------------------
(* The commands (src/src/commands.rs) on a file system.                    *)

Paths == {"a.png", "b.png"}

NoFile == [exists |-> FALSE, content |-> <<>>]
File(b) == [exists |-> TRUE, content |-> b]

\* fs::write(path, bytes)
fs_write(f, path, b) == [f EXCEPT ![path] = File(b)]

\* What a command did: its exit status, whether the chunk was found, the
\* text it printed, and the path it wrote ("none": no fs::write).
Outcome(cmd, input, ct, status, found, out, wrote) ==
    [cmd |-> cmd, input |-> input, ctype |-> ct, status |-> status,
     found |-> found, out |-> out, wrote |-> wrote]

NoCmd == Outcome("none", "none", NoType, "none", FALSE, <<>>, "none")

\* fs::read then Png::try_from: the error of the first that fails.
load(f, input) ==
    IF ~f[input].exists THEN PngErr("Io") ELSE Png_try_from(f[input].content)

\* commands::encode: the new file system and the outcome.
encode(f, input, output, ct, message) ==
    LET output_path == IF output = "none" THEN input ELSE output
        r == load(f, input)
    IN  IF ~r.ok THEN [fs |-> f, last |-> Outcome("encode", input, ct, "Err", FALSE, <<>>, "none")]
        ELSE LET c == Chunk_new(ct, message)
                 png == append_chunk(r.png, c)
             IN  [fs |-> fs_write(f, output_path, Png_as_bytes(png)),
                  last |-> Outcome("encode", input, ct, "Ok", FALSE, <<>>, output_path)]

\* Faulty variant of decode: the container is written back after the
\* chunk was taken out of it.
decode_writes_back(f, input, ct) ==
    LET r == load(f, input)
    IN  IF ~r.ok THEN [fs |-> f, last |-> Outcome("decode", input, ct, "Err", FALSE, <<>>, "none")]
        ELSE LET rm == remove_first_chunk(r.png, ct)
             IN  IF rm.found
                 THEN LET g == fs_write(f, input, Png_as_bytes(rm.png))
                          text == data_as_str(rm.chunk)
                      IN  IF text.ok
                          THEN [fs |-> g, last |-> Outcome("decode", input, ct, "Ok", TRUE,
                                                           text.text, "none")]
                          ELSE [fs |-> g, last |-> Outcome("decode", input, ct, "Err.Utf8",
                                                           TRUE, <<>>, "none")]
                 ELSE [fs |-> f, last |-> Outcome("decode", input, ct, "Ok", FALSE, <<>>, "none")]

\* commands::decode
decode(f, input, ct) ==
    LET r == load(f, input)
    IN  IF ~r.ok THEN [fs |-> f, last |-> Outcome("decode", input, ct, "Err", FALSE, <<>>, "none")]
        ELSE LET rm == remove_first_chunk(r.png, ct)
             IN  IF rm.found
                 THEN LET text == data_as_str(rm.chunk)
                      IN  IF text.ok
                          THEN [fs |-> f, last |-> Outcome("decode", input, ct, "Ok", TRUE,
                                                           text.text, "none")]
                          ELSE [fs |-> f, last |-> Outcome("decode", input, ct, "Err.Utf8",
                                                           TRUE, <<>>, "none")]
                 ELSE [fs |-> f, last |-> Outcome("decode", input, ct, "Ok", FALSE, <<>>, "none")]

\* Faulty variant of remove: the removed data is converted to text before
\* the file is written, so a chunk that is not text is never removed.
remove_text_first(f, input, ct) ==
    LET r == load(f, input)
    IN  IF ~r.ok THEN [fs |-> f, last |-> Outcome("remove", input, ct, "Err", FALSE, <<>>, "none")]
        ELSE LET rm == remove_first_chunk(r.png, ct)
             IN  IF rm.found
                 THEN LET text == data_as_str(rm.chunk)
                      IN  IF text.ok
                          THEN [fs |-> fs_write(f, input, Png_as_bytes(rm.png)),
                                last |-> Outcome("remove", input, ct, "Ok", TRUE,
                                                 text.text, input)]
                          ELSE [fs |-> f, last |-> Outcome("remove", input, ct, "Err.Utf8",
                                                           TRUE, <<>>, "none")]
                 ELSE [fs |-> f, last |-> Outcome("remove", input, ct, "Ok", FALSE, <<>>, "none")]

\* commands::remove: the file is written before the removed text is printed.
remove(f, input, ct) ==
    LET r == load(f, input)
    IN  IF ~r.ok THEN [fs |-> f, last |-> Outcome("remove", input, ct, "Err", FALSE, <<>>, "none")]
        ELSE LET rm == remove_first_chunk(r.png, ct)
             IN  IF rm.found
                 THEN LET g == fs_write(f, input, Png_as_bytes(rm.png))
                          text == data_as_str(rm.chunk)
                      IN  IF text.ok
                          THEN [fs |-> g, last |-> Outcome("remove", input, ct, "Ok", TRUE,
                                                           text.text, input)]
                          ELSE [fs |-> g, last |-> Outcome("remove", input, ct, "Err.Utf8",
                                                           TRUE, <<>>, input)]
                 ELSE [fs |-> f, last |-> Outcome("remove", input, ct, "Ok", FALSE, <<>>, "none")]

\* commands::print: every chunk of the file is printed; out counts them.
print(f, input) ==
    LET r == load(f, input)
    IN  IF ~r.ok THEN [fs |-> f, last |-> Outcome("print", input, NoType, "Err", FALSE, <<>>, "none")]
        ELSE [fs |-> f, last |-> Outcome("print", input, NoType, "Ok", FALSE,
                                         <<Len(chunks(r.png))>>, "none")]

---------------------------------------------------------------------------
(* SpecPng: commands run one after the other on the files.                 *)

IEND == <<73, 69, 78, 68>>
ruSt == <<114, 117, 83, 116>>

\* The chunk types a command is given (clap parses them with from_str).
ArgTypes == {from_str(RuSt).val, from_str(ruSt).val}

\* "Hi"
Messages == {<<72, 105>>}

\* A raw record: the fields as given, whether they agree or not.
Frame(lenField, code, dat, crcField) ==
    to_be_bytes(lenField) \o code \o dat \o to_be_bytes(crcField)

IendBytes == as_bytes(Chunk_new(ChunkType(IEND), <<>>))
BinBytes == as_bytes(Chunk_new(ChunkType(RuSt), <<255>>))
BinCrc == crc(Chunk_new(ChunkType(RuSt), <<255>>))

\* The files the commands start from: two well-formed ones (the second
\* holds a chunk whose data is not text), then malformed ones: a wrong
\* signature, no bytes, a signature cut short, a CRC field with one bit
\* flipped, a length field one too large and one too small, an invalid
\* type, a record cut short, and bytes after the last record.
InitialFiles ==
    { STANDARD_HEADER \o IendBytes,
      STANDARD_HEADER \o BinBytes,
      <<136>> \o Tail(STANDARD_HEADER) \o IendBytes,
      <<>>,
      SubSeq(STANDARD_HEADER, 1, 7),
      STANDARD_HEADER \o Frame(as_u32(1), RuSt, <<255>>, Xor(BinCrc, {7})) \o IendBytes,
      STANDARD_HEADER \o Frame(as_u32(2), RuSt, <<255>>, BinCrc) \o IendBytes,
      STANDARD_HEADER \o Frame(as_u32(0), RuSt, <<255>>, BinCrc) \o IendBytes,
      STANDARD_HEADER \o Frame(as_u32(0), <<82, 117, 115, 116>>, <<>>,
                               crc(Chunk_new(ChunkType(<<82, 117, 115, 116>>), <<>>))),
      STANDARD_HEADER \o SubSeq(IendBytes, 1, 11),
      STANDARD_HEADER \o IendBytes \o <<0>> }

IdlePng == fs = [p \in Paths |-> NoFile] /\ last = NoCmd

PngInit ==
    /\ \E b \in InitialFiles : fs = [p \in Paths |-> IF p = "a.png" THEN File(b) ELSE NoFile]
    /\ last = NoCmd

\* The encode command is run on files of fewer than MaxChunks chunks.
Small(r) == r.ok => Len(r.png.chunks) < MaxChunks

\* Each command is one step: the file system and the outcome it leaves.
\* (An output path equal to the input path is the case of no output path.)
Encode ==
    /\ \E input \in Paths, ct \in ArgTypes, m \in Messages :
       \E output \in (Paths \ {input}) \cup {"none"} :
          /\ \E r \in {load(fs, input)} : Small(r)
          /\ \E o \in {encode(fs, input, output, ct, m)} : fs' = o.fs /\ last' = o.last
    /\ UNCHANGED <<typeVars, chunkVars>>

DecodeCmd ==
    /\ \E input \in Paths, ct \in ArgTypes :
          \E o \in {decode(fs, input, ct)} : fs' = o.fs /\ last' = o.last
    /\ UNCHANGED <<typeVars, chunkVars>>

Remove ==
    /\ \E input \in Paths, ct \in ArgTypes :
          \E o \in {remove(fs, input, ct)} : fs' = o.fs /\ last' = o.last
    /\ UNCHANGED <<typeVars, chunkVars>>

PrintCmd ==
    /\ \E input \in Paths :
          \E o \in {print(fs, input)} : fs' = o.fs /\ last' = o.last
    /\ UNCHANGED <<typeVars, chunkVars>>

---------------------------------------------------------------------------
(* The specifications.                                                     *)

TypeNext == FromStr \/ TryFrom
InitType == TypeInit /\ IdleChunk /\ IdlePng
SpecType == InitType /\ [][TypeNext]_vars

ChunkNext == New \/ AsBytes \/ Forge \/ FlipBit \/ Truncate \/ Extend \/ Decode
InitChunk == ChunkInit /\ IdleType /\ IdlePng
SpecChunk == InitChunk /\ [][ChunkNext]_vars

PngNext == Encode \/ DecodeCmd \/ Remove \/ PrintCmd
InitPng == PngInit /\ IdleType /\ IdleChunk
SpecPng == InitPng /\ [][PngNext]_vars

---------------------------------------------------------------------------
(* Properties of ChunkType (SpecType).                                     *)

Letter(b) == b \in (65..90) \cup (97..122)

\* C3: ChunkType::try_from(code) succeeds iff all four bytes are ASCII
\* letters and byte 2 (the third byte) is uppercase; the error is NonAscii
\* when a byte is not a letter, and ReservedBit only when all four are
\* letters and byte 2 is lowercase; try_from succeeds exactly when
\* is_valid() holds of the unvalidated type with the same code.
C3_ValidityPredicate ==
    tres.op = "try_from" =>
        LET c == tin.b
            letters == \A i \in 1..4 : Letter(c[i])
        IN  /\ tres.r.ok <=> (letters /\ c[3] \in 65..90)
            /\ tres.r.ok => tres.r.val.type_code = c
            /\ ~letters => tres.r.err = "Validation.NonAscii"
            /\ tres.r.err = "Validation.ReservedBit" => (letters /\ c[3] \in 97..122)
            /\ (letters /\ c[3] \in 97..122) => tres.r.err = "Validation.ReservedBit"
            /\ tres.r.ok <=> tres.valid

\* A code of four letters with a lowercase byte 2 was rejected.
C3_Witness ==
    /\ tres.op = "try_from"
    /\ tres.r.err = "Validation.ReservedBit"
    /\ tin.b = <<90, 97, 122, 65>>

\* C6: from_str(s) fails with InvalidLength(n) for every string of n # 4
\* bytes, shorter or longer; for 4 bytes it returns what try_from returns.
C6_FromStrLength ==
    tres.op = "from_str" =>
        IF Len(tin.b) # 4
        THEN ~tres.r.ok /\ tres.r.err = "Parse.InvalidLength" /\ tres.r.n = Len(tin.b)
        ELSE tres.r = ChunkType_try_from(tin.b)

---------------------------------------------------------------------------
(* Properties of Chunk (SpecChunk).                                        *)

\* The type code of a buffer of at least 8 bytes, and its length field.
CodeOf(b) == SubSeq(b, 5, 8)
LenOf(b) == from_be_bytes(SubSeq(b, 1, 4))

\* The buffer holds the whole record its length field declares.
Whole(b) == Len(b) >= OVERHEAD_BYTES /\ UsizeLeq(LenOf(b), Len(b) - OVERHEAD_BYTES)

Malformed(code) == ~(\A i \in 1..4 : Letter(code[i])) \/ code[3] \notin 65..90

\* The error try_from reports for a malformed code.
TypeError(code) ==
    IF \A i \in 1..4 : Letter(code[i]) THEN "Validation.ReservedBit" ELSE "Validation.NonAscii"

\* C1: decoding the encoding of Chunk::new(t, d) succeeds and yields a
\* chunk whose type and data are t and d.
C1_ChunkRoundTrip ==
    (pc = "done" /\ chunk # NoChunk /\ tamper.kind = "none") =>
        /\ res.ok
        /\ res.chunk.chunk_type.type_code = t
        /\ res.chunk.data = d
        /\ res.chunk = chunk

\* An encoded chunk with a two-byte payload was decoded.
C1_Witness ==
    pc = "done" /\ chunk # NoChunk /\ tamper.kind = "none" /\ Len(d) = 2 /\ res.ok

\* C8 as claimed: the chunk of type "RuSt" with the 42-character message
\* has length() = 44 and crc() = 2882656334 (0xABD1D84E).
C8_Scenario1_Claimed ==
    (pc = "new" /\ t = RuSt /\ d = Message) =>
        length(chunk) = as_u32(44) /\ crc(chunk) = U32(43985, 55374)

\* C8 amended: that chunk has length() = 42, the byte count of the payload,
\* written big-endian by as_bytes, and crc() = 2882656334 (0xABD1D84E),
\* written big-endian after the data.
C8_Scenario1 ==
    (pc = "new" /\ t = RuSt /\ d = Message) =>
        /\ Len(d) = 42
        /\ length(chunk) = as_u32(42)
        /\ crc(chunk) = U32(43985, 55374)
        /\ SubSeq(as_bytes(chunk), 1, 4) = <<0, 0, 0, 42>>
        /\ SubSeq(as_bytes(chunk), 51, 54) = <<171, 209, 216, 78>>
        /\ Len(as_bytes(chunk)) = OVERHEAD_BYTES + 42

C8_Witness == pc = "new" /\ t = RuSt /\ d = Message /\ chunk.data = Message

\* C4 as claimed: with any one bit of an encoded chunk flipped, decoding
\* fails with a CRC mismatch or a length mismatch.
C4_BitFlip_Claimed ==
    (pc = "done" /\ tamper.kind = "flip") =>
        ~res.ok /\ res.err \in {"Validation.CRC32Mismatch", "Validation.LengthMismatch"}

\* C4 amended: with one bit of an encoded chunk flipped,
\*  - a flip in the data or the CRC field fails with the CRC mismatch;
\*  - a flip in the type field fails with the invalid-type error when the
\*    flipped code is malformed, and with the CRC mismatch otherwise;
\*  - a flip that sets a bit of the length field fails with the read error;
\*  - a flip that clears a bit of the length field decodes the shorter
\*    record: it fails with the CRC mismatch unless the four bytes after the
\*    shortened data are the CRC of the shortened chunk, and then succeeds;
\*  - the length mismatch is never reported.
C4_BitFlip ==
    (pc = "done" /\ tamper.kind = "flip") =>
        LET i == tamper.at
        IN  /\ res.err # "Validation.LengthMismatch"
            /\ i >= 64 => (~res.ok /\ res.err = "Validation.CRC32Mismatch")
            /\ (i >= 32 /\ i < 64) =>
                  /\ ~res.ok
                  /\ res.err = IF Malformed(CodeOf(buf)) THEN TypeError(CodeOf(buf))
                               ELSE "Validation.CRC32Mismatch"
            /\ (i < 32 /\ (31 - i) \in LenOf(buf)) => (~res.ok /\ res.err = "Parse.Io")
            /\ (i < 32 /\ (31 - i) \notin LenOf(buf)) =>
                  LET n == WordNat(LenOf(buf))
                      short == Chunk_new(chunk.chunk_type, SubSeq(chunk.data, 1, n))
                  IN  IF from_be_bytes(SubSeq(orig, 9 + n, 12 + n)) = crc(short)
                      THEN res.ok /\ res.chunk = short
                      ELSE ~res.ok /\ res.err = "Validation.CRC32Mismatch"

\* A flipped length bit made the decode succeed with a shorter chunk.
C4_Witness == pc = "done" /\ tamper.kind = "flip" /\ res.ok /\ res.chunk # chunk

\* C5 as claimed: a raw record with a malformed type code is rejected with
\* the invalid-type error, whatever its length field and CRC field hold.
C5_Precedence_Claimed ==
    (pc = "done" /\ tamper.kind = "forge" /\ Malformed(CodeOf(buf))) =>
        ~res.ok /\ res.err = TypeError(CodeOf(buf))

\* C5 amended: for a buffer with a malformed type code that holds the
\* 12 + L bytes its length field L declares, decode reports the invalid-type
\* error (also when the CRC field is wrong or L is smaller than the data
\* present); when it holds fewer than 12 + L bytes, decode reports the read
\* error instead.
C5_Precedence ==
    (pc = "done" /\ Len(buf) >= 8 /\ Malformed(CodeOf(buf))) =>
        /\ ~res.ok
        /\ res.err = IF Whole(buf) THEN TypeError(CodeOf(buf)) ELSE "Parse.Io"

\* A record with a malformed type, a length field smaller than its data
\* and a wrong CRC field was rejected for its type.
C5_Witness ==
    /\ pc = "done" /\ tamper.kind = "forge"
    /\ Len(d) = 2 /\ LenOf(buf) = as_u32(1)
    /\ res.err = "Validation.ReservedBit"

\* C9: a buffer of fewer than 12 bytes, or of fewer than 12 + L bytes for
\* its declared length L, is rejected with the read error; any other
\* buffer is never rejected with the read error, a successful decode
\* consumes exactly 12 + L bytes, and the bytes after the first 12 + L do
\* not change the result.
C9_Truncation ==
    pc = "done" =>
        IF ~Whole(buf) THEN ~res.ok /\ res.err = "Parse.Io"
        ELSE LET n == WordNat(LenOf(buf))
             IN  /\ res.err # "Parse.Io"
                 /\ res.ok => (res.consumed = OVERHEAD_BYTES + n /\ Len(res.chunk.data) = n)
                 /\ res = Chunk_try_from(SubSeq(buf, 1, OVERHEAD_BYTES + n))
                 /\ (tamper.kind = "extend" /\ Whole(orig)) => res = Chunk_try_from(orig)

\* A buffer cut after its twelfth byte or later, short of its declared
\* length, was rejected with the read error.
C9_Witness ==
    /\ pc = "done" /\ tamper.kind = "truncate" /\ tamper.at >= OVERHEAD_BYTES
    /\ res.err = "Parse.Io"

---------------------------------------------------------------------------
(* Properties of the container and the commands (SpecPng).                 *)

\* C2: every file that decodes re-encodes to exactly its bytes: the
\* signature, then each chunk's encoding in list order.
C2_ContainerRoundTrip ==
    \A p \in Paths :
        fs[p].exists =>
            \A r \in {Png_try_from(fs[p].content)} :
                r.ok => /\ Png_as_bytes(r.png) = fs[p].content
                        /\ SubSeq(fs[p].content, 1, 8) = <<137, 80, 78, 71, 13, 10, 26, 10>>

\* A file of two chunks decodes.
C2_Witness ==
    \E p \in Paths :
        /\ fs[p].exists
        /\ Png_try_from(fs[p].content).ok
        /\ Len(Png_try_from(fs[p].content).png.chunks) = 2

\* The chunks of the file at path p in file system f (decoding succeeds).
ChunksOf(f, p) == Png_try_from(f[p].content).png.chunks

C10_DecodeReadOnly ==
    [][/\ last'.cmd = "decode" =>
             /\ fs' = fs
             /\ last'.wrote = "none"
             /\ decode(fs', last'.input, last'.ctype).last = last'
       /\ fs' # fs => (last'.cmd = "encode" \/ (last'.cmd = "remove" /\ last'.found))
       /\ (last'.cmd = "encode" /\ last'.status = "Ok") => last'.wrote \in Paths
       /\ last'.cmd = "remove" => (last'.wrote # "none" <=> last'.found)
       /\ last'.cmd = "print" => last'.wrote = "none"]_vars

\* A decode command found the message "Hi".
C10_Witness ==
    last.cmd = "decode" /\ last.found /\ last.status = "Ok" /\ last.out = <<72, 105>>

=============================================================================
